---- MODULE Spec2Model ----
(***************************************************************************)
(* Tick-driven CPU scheduling simulations of aevum/schedulers.py:          *)
(* run_fcfs_simulation, run_sjf_simulation, run_stcf_simulation and        *)
(* run_rr_simulation.  One behaviour is one call of one of the four        *)
(* functions on one caller-supplied list; one step of the model is the     *)
(* argument validation, one whole iteration of the `while` loop (arrivals, *)
(* dispatch, one unit of work, completion / preemption, clock.tick()), or  *)
(* the construction of the returned report.                                *)
(***************************************************************************)
EXTENDS Integers, Sequences, FiniteSets

(***************************************************************************)
(* Bounds of the explored inputs.                                          *)
(***************************************************************************)
MaxProcs == 2
MaxBurst == 3
MaxArrival == 2
MaxQuantum == 3
\* Ticks a run that has not left its loop is followed past Horizon.
Overrun == 2

Disciplines == {"FCFS", "SJF", "STCF", "RR"}

(***************************************************************************)
(* base.py: Process, ProcessResult.  None is the value of `current_job`    *)
(* when the CPU is idle; pids of real processes are >= 1.                  *)
(***************************************************************************)
Process(pid, burst_time, arrival_time) ==
    [pid |-> pid, burst_time |-> burst_time, arrival_time |-> arrival_time]

None == Process(0, 0, 0)

\* The __init__ the frozen dataclass generates (aevum/base.py, the class
\* schedulers.py imports): the three fields are stored as given, no check.
NewProcess(pid, burst_time, arrival_time) == Process(pid, burst_time, arrival_time)

ProcessResult(process, waiting_time, turnaround_time, completion_time) ==
    [process |-> process, waiting_time |-> waiting_time,
     turnaround_time |-> turnaround_time, completion_time |-> completion_time]

\* Clock.__init__ sets _time = 0; NoClock is "Clock() not constructed yet".
NoClock == 0 - 1

ClockInit == 0

\* Mutant of ClockTick: the clock advances by two.
ClockTickTwice(t) == t + 2

\* Clock.tick: self._time += 1
ClockTick(t) == t + 1

(***************************************************************************)
(* Inputs.  A list of n <= MaxProcs processes, each constructed from every  *)
(* combination of burst and arrival times (sorted or not), with pids       *)
(* either ascending or descending along the list, and the scenarios.       *)
(***************************************************************************)
\* The least burst_time the caller passes to the constructor.
MinBurst == 0 - 1

PidOrders == {"asc", "desc"}

PidAt(order, n, i) == IF order = "asc" THEN i ELSE n + 1 - i

ProcLists ==
    UNION { { [i \in 1..n |-> NewProcess(PidAt(o, n, i), b[i], a[i])] :
                b \in [1..n -> MinBurst..MaxBurst],
                a \in [1..n -> 0..MaxArrival],
                o \in (IF n <= 1 THEN {"asc"} ELSE PidOrders) } :
            n \in 0..MaxProcs }

ScenarioA == << Process(1, 5, 0), Process(2, 3, 1) >>
ScenarioB == << Process(1, 10, 0), Process(2, 2, 0) >>
ScenarioC == << Process(1, 8, 0), Process(2, 4, 1) >>
ScenarioD == << Process(1, 5, 0), Process(2, 3, 0) >>

\* A list whose second process arrives in the middle of the first one's second
\* slice under time_quantum 2.
MidSliceArrival == << Process(1, 4, 0), Process(2, 1, 3) >>

Scenarios == {ScenarioA, ScenarioB, ScenarioC, ScenarioD, MidSliceArrival}

Inputs == ProcLists \cup Scenarios

Quanta == (0 - 1)..MaxQuantum

(***************************************************************************)
(* Helpers on lists.                                                       *)
(***************************************************************************)
RECURSIVE SumBurst(_)
SumBurst(ps) == IF ps = << >> THEN 0 ELSE Head(ps).burst_time + SumBurst(Tail(ps))

RECURSIVE MaxArrivalOf(_)
MaxArrivalOf(ps) ==
    IF ps = << >> THEN 0
    ELSE LET m == MaxArrivalOf(Tail(ps))
         IN IF Head(ps).arrival_time > m THEN Head(ps).arrival_time ELSE m

\* The tick by which all the work of the list can have been executed.
Horizon(ps) == MaxArrivalOf(ps) + SumBurst(ps)

\* utils.is_sorted_by_arrival: non-decreasing arrival_time along the list.
is_sorted_by_arrival(ps) ==
    \A i \in 1..(Len(ps) - 1) : ps[i].arrival_time <= ps[i + 1].arrival_time

(***************************************************************************)
(* State.                                                                  *)
(*   disc, processes, time_quantum : the function called and its arguments *)
(*     (processes is the caller's list object, which FCFS and SJF pop);    *)
(*   input0 : the caller's list as it was at the call (history);           *)
(*   pc : "start" | "raised" (ValueError) | "loop" | "returned";           *)
(*   incoming_processes : the local copy STCF (there named                 *)
(*     ready_processes) and RR consume on arrival;                         *)
(*   ready_processes : the ready list of FCFS, SJF and RR;                 *)
(*   ready_heap : STCF's heap of (remaining, arrival, pid, process);       *)
(*   remaining_time, start_time : FCFS / SJF locals;                       *)
(*   remaining_times, original_bursts : STCF / RR dicts keyed by pid;      *)
(*   trace : pid that executed a unit of work at each tick, 0 when idle    *)
(*     (history);                                                          *)
(*   step : what the last iteration did (history), see Step;               *)
(*   report : "individual_results" of the returned dict.                   *)
(***************************************************************************)
VARIABLES disc, processes, time_quantum, input0, pc, clock, current_job,
          process_results, incoming_processes, ready_processes, ready_heap,
          remaining_time, start_time, remaining_times, original_bursts,
          quantum_tracker, trace, step, report

vars == << disc, processes, time_quantum, input0, pc, clock, current_job,
           process_results, incoming_processes, ready_processes, ready_heap,
           remaining_time, start_time, remaining_times, original_bursts,
           quantum_tracker, trace, step, report >>

State ==
    [disc |-> disc, processes |-> processes, time_quantum |-> time_quantum,
     input0 |-> input0, pc |-> pc, clock |-> clock, current_job |-> current_job,
     process_results |-> process_results,
     incoming_processes |-> incoming_processes,
     ready_processes |-> ready_processes, ready_heap |-> ready_heap,
     remaining_time |-> remaining_time, start_time |-> start_time,
     remaining_times |-> remaining_times, original_bursts |-> original_bursts,
     quantum_tracker |-> quantum_tracker, trace |-> trace, step |-> step,
     report |-> report]

Becomes(s) ==
    /\ disc' = s.disc
    /\ processes' = s.processes
    /\ time_quantum' = s.time_quantum
    /\ input0' = s.input0
    /\ pc' = s.pc
    /\ clock' = s.clock
    /\ current_job' = s.current_job
    /\ process_results' = s.process_results
    /\ incoming_processes' = s.incoming_processes
    /\ ready_processes' = s.ready_processes
    /\ ready_heap' = s.ready_heap
    /\ remaining_time' = s.remaining_time
    /\ start_time' = s.start_time
    /\ remaining_times' = s.remaining_times
    /\ original_bursts' = s.original_bursts
    /\ quantum_tracker' = s.quantum_tracker
    /\ trace' = s.trace
    /\ step' = s.step
    /\ report' = s.report

\* What one iteration did: the not-yet-admitted processes and the ready queue
\* it began with, the processes its arrival loop admitted, the
\* job on the CPU when it began and that job's remaining time, whether it
\* dispatched, the job that executed the unit of work with its remaining time
\* before the unit and the ticks of its slice so far, whether that job
\* finished, and the same of the iteration before.
Step(pending, queue, admitted, incumbent, incumbent_rem, dispatched, ran, rem_before, slice, finished, before) ==
    [pending |-> pending, queue |-> queue,
     admitted |-> admitted, incumbent |-> incumbent,
     incumbent_rem |-> incumbent_rem, dispatched |-> dispatched, ran |-> ran,
     rem_before |-> rem_before, slice |-> slice, finished |-> finished,
     prev_ran |-> before.ran, prev_slice |-> before.slice,
     prev_finished |-> before.finished]

NoStep ==
    [pending |-> << >>, queue |-> << >>,
     admitted |-> << >>, incumbent |-> None, incumbent_rem |-> 0,
     dispatched |-> FALSE, ran |-> None, rem_before |-> 0, slice |-> 0,
     finished |-> FALSE, prev_ran |-> None, prev_slice |-> 0,
     prev_finished |-> FALSE]

\* No dict has been returned.
NoReport ==
    [individual_results |-> << >>,
     averages |-> [avg_waiting_time |-> 0, avg_turnaround_time |-> 0]]

\* The state at the call: nothing of the simulation exists yet.
Called(d, ps, q) ==
    [disc |-> d, processes |-> ps, time_quantum |-> q, input0 |-> ps,
     pc |-> "start", clock |-> NoClock, current_job |-> None,
     process_results |-> << >>, incoming_processes |-> << >>,
     ready_processes |-> << >>, ready_heap |-> << >>,
     remaining_time |-> 0, start_time |-> 0,
     remaining_times |-> << >>, original_bursts |-> << >>,
     quantum_tracker |-> 0, trace |-> << >>, step |-> NoStep,
     report |-> NoReport]

Is(s) ==
    /\ disc = s.disc
    /\ processes = s.processes
    /\ time_quantum = s.time_quantum
    /\ input0 = s.input0
    /\ pc = s.pc
    /\ clock = s.clock
    /\ current_job = s.current_job
    /\ process_results = s.process_results
    /\ incoming_processes = s.incoming_processes
    /\ ready_processes = s.ready_processes
    /\ ready_heap = s.ready_heap
    /\ remaining_time = s.remaining_time
    /\ start_time = s.start_time
    /\ remaining_times = s.remaining_times
    /\ original_bursts = s.original_bursts
    /\ quantum_tracker = s.quantum_tracker
    /\ trace = s.trace
    /\ step = s.step
    /\ report = s.report

Init ==
    \E d \in Disciplines, ps \in Inputs, q \in Quanta :
        /\ (d # "RR" => q = 0)
        /\ Is(Called(d, ps, q))

(***************************************************************************)
(* Argument validation, common to the four functions (RR adds the quantum  *)
(* test between the two others).                                           *)
(***************************************************************************)
\* `if not processes`
EmptyList(ps) == ps = << >>

\* Mutant of BadQuantum: a zero quantum is let through.
BadQuantumStrict(q) == q < 0

\* `if time_quantum <= 0`
BadQuantum(q) == q <= 0

Rejects(d, ps, q) ==
    \/ EmptyList(ps)
    \/ d = "RR" /\ BadQuantum(q)
    \/ ~is_sorted_by_arrival(ps)

\* raise ValueError(...): the call ends, nothing of the simulation was built.
Reject ==
    /\ pc = "start"
    /\ Rejects(disc, processes, time_quantum)
    /\ Becomes([State EXCEPT !.pc = "raised"])

\* {p.pid: p.burst_time for p in processes}
BurstTable(ps) ==
    [pid \in {ps[i].pid : i \in 1..Len(ps)} |->
        LET last == CHOOSE i \in 1..Len(ps) :
                        /\ ps[i].pid = pid
                        /\ \A j \in (i + 1)..Len(ps) : ps[j].pid # pid
        IN ps[last].burst_time]

\* Locals of run_fcfs_simulation and run_sjf_simulation before the loop.
StartFcfsSjf(s) ==
    [s EXCEPT !.pc = "loop", !.clock = ClockInit, !.current_job = None,
              !.process_results = << >>, !.ready_processes = << >>,
              !.remaining_time = 0, !.start_time = 0]

\* Locals of run_stcf_simulation before the loop.
StartStcf(s) ==
    [s EXCEPT !.pc = "loop", !.clock = ClockInit, !.current_job = None,
              !.process_results = << >>, !.ready_heap = << >>,
              !.remaining_times = BurstTable(s.processes),
              !.original_bursts = BurstTable(s.processes),
              !.incoming_processes = s.processes]

\* Locals of run_rr_simulation before the loop.
StartRr(s) ==
    [s EXCEPT !.pc = "loop", !.clock = ClockInit, !.current_job = None,
              !.process_results = << >>, !.ready_processes = << >>,
              !.incoming_processes = s.processes,
              !.remaining_times = BurstTable(s.processes),
              !.original_bursts = BurstTable(s.processes),
              !.quantum_tracker = 0]

FcfsStart ==
    /\ pc = "start" /\ disc = "FCFS"
    /\ ~Rejects(disc, processes, time_quantum)
    /\ Becomes(StartFcfsSjf(State))

SjfStart ==
    /\ pc = "start" /\ disc = "SJF"
    /\ ~Rejects(disc, processes, time_quantum)
    /\ Becomes(StartFcfsSjf(State))

StcfStart ==
    /\ pc = "start" /\ disc = "STCF"
    /\ ~Rejects(disc, processes, time_quantum)
    /\ Becomes(StartStcf(State))

RrStart ==
    /\ pc = "start" /\ disc = "RR"
    /\ ~Rejects(disc, processes, time_quantum)
    /\ Becomes(StartRr(State))

(***************************************************************************)
(* Pieces shared by the four loops.                                        *)
(***************************************************************************)
\* Mutant of Arrived: a process is admitted one tick before it arrives.
ArrivedEarly(p, t) == p.arrival_time <= t + 1

\* Mutant of Arrived: a process is admitted one tick after it arrives.
ArrivedLate(p, t) == p.arrival_time < t

\* `p.arrival_time <= clock.time`
Arrived(p, t) == p.arrival_time <= t

\* `while pending and pending[0].arrival_time <= t: ready.append(pending.pop(0))`
\* pops the longest prefix of arrived processes: the number it pops.
ArrivedPrefix(pending, t) ==
    CHOOSE k \in 0..Len(pending) :
        /\ \A i \in 1..k : Arrived(pending[i], t)
        /\ k < Len(pending) => ~Arrived(pending[k + 1], t)

\* Mutant of CpuIdle: the dispatch does not look at the running job.
CpuIdleAlways(job) == TRUE

\* `if not current_job`
CpuIdle(job) == job = None

\* Mutant of CompletionTime: the tick of the last unit, not the one after it.
CompletionTimeAtTick(t) == t

\* `completion_time = clock.time + 1`
CompletionTime(t) == t + 1

\* list.pop(i) for the 1-based position i: the list without that element.
RemoveAt(seq, i) == SubSeq(seq, 1, i - 1) \o SubSeq(seq, i + 1, Len(seq))

\* list.remove(x): drops the first element equal to x.
Remove(seq, x) ==
    RemoveAt(seq, CHOOSE i \in 1..Len(seq) :
                      seq[i] = x /\ \A j \in 1..(i - 1) : seq[j] # x)

\* The run is followed while its clock is below Horizon + Overrun.
Followed(s) == s.clock < Horizon(s.input0) + Overrun

(***************************************************************************)
(* run_fcfs_simulation, one iteration of `while processes or               *)
(* ready_processes or current_job`.                                        *)
(***************************************************************************)
FcfsLoopCond(s) ==
    s.processes # << >> \/ s.ready_processes # << >> \/ s.current_job # None

FcfsIteration(s) ==
    LET k == ArrivedPrefix(s.processes, s.clock)
        pending1 == SubSeq(s.processes, k + 1, Len(s.processes))
        ready1 == s.ready_processes \o SubSeq(s.processes, 1, k)
        dispatch == CpuIdle(s.current_job) /\ ready1 # << >>
        job1 == IF dispatch THEN Head(ready1) ELSE s.current_job
        ready2 == IF dispatch THEN Tail(ready1) ELSE ready1
        rem1 == IF dispatch THEN job1.burst_time ELSE s.remaining_time
        start1 == IF dispatch THEN s.clock ELSE s.start_time
        running == job1 # None
        rem2 == IF running THEN rem1 - 1 ELSE rem1
        finished == running /\ rem2 = 0
        comp_t == CompletionTime(s.clock)
        wait_t == start1 - job1.arrival_time
        tat_t == comp_t - job1.arrival_time
    IN [s EXCEPT !.processes = pending1,
                 !.ready_processes = ready2,
                 !.current_job = IF finished THEN None ELSE job1,
                 !.remaining_time = rem2,
                 !.start_time = start1,
                 !.process_results =
                     IF finished
                     THEN Append(@, ProcessResult(job1, wait_t, tat_t, comp_t))
                     ELSE @,
                 !.trace = Append(@, IF running THEN job1.pid ELSE 0),
                 !.step = Step(s.processes, s.ready_processes,
                               SubSeq(s.processes, 1, k), s.current_job,
                               s.remaining_time, dispatch, job1, rem1, 0,
                               finished, @),
                 !.clock = ClockTick(@)]

\* run_fcfs_simulation from the call to the end of its loop, on a valid list.
RECURSIVE FcfsLoop(_)
FcfsLoop(s) ==
    IF FcfsLoopCond(s) /\ Followed(s) THEN FcfsLoop(FcfsIteration(s)) ELSE s

FcfsTick ==
    /\ pc = "loop" /\ disc = "FCFS"
    /\ FcfsLoopCond(State)
    /\ Followed(State)
    /\ Becomes(FcfsIteration(State))

(***************************************************************************)
(* run_sjf_simulation, one iteration.                                      *)
(***************************************************************************)
\* Mutant of MinByBurst: the last element of least burst.
MinByBurstLast(ready) ==
    ready[CHOOSE i \in 1..Len(ready) :
              /\ \A j \in 1..Len(ready) : ready[i].burst_time <= ready[j].burst_time
              /\ \A j \in (i + 1)..Len(ready) : ready[j].burst_time > ready[i].burst_time]

\* min(ready, key=lambda p: p.burst_time): the first element of least burst.
MinByBurst(ready) ==
    ready[CHOOSE i \in 1..Len(ready) :
              /\ \A j \in 1..Len(ready) : ready[i].burst_time <= ready[j].burst_time
              /\ \A j \in 1..(i - 1) : ready[j].burst_time > ready[i].burst_time]

SjfIteration(s) ==
    LET k == ArrivedPrefix(s.processes, s.clock)
        pending1 == SubSeq(s.processes, k + 1, Len(s.processes))
        ready1 == s.ready_processes \o SubSeq(s.processes, 1, k)
        dispatch == CpuIdle(s.current_job) /\ ready1 # << >>
        job1 == IF dispatch THEN MinByBurst(ready1) ELSE s.current_job
        ready2 == IF dispatch THEN Remove(ready1, job1) ELSE ready1
        rem1 == IF dispatch THEN job1.burst_time ELSE s.remaining_time
        start1 == IF dispatch THEN s.clock ELSE s.start_time
        running == job1 # None
        rem2 == IF running THEN rem1 - 1 ELSE rem1
        finished == running /\ rem2 = 0
        completion_time == CompletionTime(s.clock)
        waiting_time == start1 - job1.arrival_time
        turnaround_time == completion_time - job1.arrival_time
    IN [s EXCEPT !.processes = pending1,
                 !.ready_processes = ready2,
                 !.current_job = IF finished THEN None ELSE job1,
                 !.remaining_time = rem2,
                 !.start_time = start1,
                 !.process_results =
                     IF finished
                     THEN Append(@, ProcessResult(job1, waiting_time,
                                                  turnaround_time, completion_time))
                     ELSE @,
                 !.trace = Append(@, IF running THEN job1.pid ELSE 0),
                 !.step = Step(s.processes, s.ready_processes,
                               SubSeq(s.processes, 1, k), s.current_job,
                               s.remaining_time, dispatch, job1, rem1, 0,
                               finished, @),
                 !.clock = ClockTick(@)]

SjfTick ==
    /\ pc = "loop" /\ disc = "SJF"
    /\ FcfsLoopCond(State)
    /\ Followed(State)
    /\ Becomes(SjfIteration(State))

(***************************************************************************)
(* run_stcf_simulation, one iteration.  ready_heap is kept as the list of  *)
(* pushed tuples; heappop takes the least tuple, which is all the loop     *)
(* observes of the heap.                                                   *)
(***************************************************************************)
StcfLoopCond(s) ==
    s.incoming_processes # << >> \/ s.ready_heap # << >> \/ s.current_job # None

\* (remaining_times[p.pid], p.arrival_time, p.pid, p)
HeapEntry(rt, p) == << rt[p.pid], p.arrival_time, p.pid, p >>

\* Mutant of TupleLess: among equal remaining times the later arrival wins.
TupleLessLateFirst(a, b) ==
    \/ a[1] < b[1]
    \/ a[1] = b[1] /\ a[2] > b[2]
    \/ a[1] = b[1] /\ a[2] = b[2] /\ a[3] < b[3]

\* Python's tuple order on the first three components (pids are distinct, so
\* the Process in fourth place is never compared).
TupleLess(a, b) ==
    \/ a[1] < b[1]
    \/ a[1] = b[1] /\ a[2] < b[2]
    \/ a[1] = b[1] /\ a[2] = b[2] /\ a[3] < b[3]

\* Mutant of HeapTop: the oldest entry is popped, not the least.
HeapTopFirst(heap) == 1

\* The position heapq.heappop removes: the least tuple.
HeapTop(heap) ==
    CHOOSE i \in 1..Len(heap) :
        \A j \in 1..Len(heap) : j # i => ~TupleLess(heap[j], heap[i])

\* heapq.heappush for each popped arrival, in list order.
PushAll(heap, rt, ps) ==
    heap \o [i \in 1..Len(ps) |-> HeapEntry(rt, ps[i])]

StcfIteration(s) ==
    LET k == ArrivedPrefix(s.incoming_processes, s.clock)
        pending1 == SubSeq(s.incoming_processes, k + 1, Len(s.incoming_processes))
        heap1 == PushAll(s.ready_heap, s.remaining_times,
                         SubSeq(s.incoming_processes, 1, k))
        new_arrival_occurred == k > 0
        preempt == new_arrival_occurred /\ s.current_job # None
        heap2 == IF preempt
                 THEN Append(heap1, HeapEntry(s.remaining_times, s.current_job))
                 ELSE heap1
        job1 == IF preempt THEN None ELSE s.current_job
        dispatch == CpuIdle(job1) /\ heap2 # << >>
        top == HeapTop(heap2)
        job2 == IF dispatch THEN heap2[top][4] ELSE job1
        heap3 == IF dispatch THEN RemoveAt(heap2, top) ELSE heap2
        running == job2 # None
        rt1 == IF running
               THEN [s.remaining_times EXCEPT ![job2.pid] = @ - 1]
               ELSE s.remaining_times
        finished == running /\ rt1[job2.pid] = 0
        completion_time == CompletionTime(s.clock)
        turnaround_time == completion_time - job2.arrival_time
        waiting_time == turnaround_time - s.original_bursts[job2.pid]
    IN [s EXCEPT !.incoming_processes = pending1,
                 !.ready_heap = heap3,
                 !.current_job = IF finished THEN None ELSE job2,
                 !.remaining_times = rt1,
                 !.process_results =
                     IF finished
                     THEN Append(@, ProcessResult(job2, waiting_time,
                                                  turnaround_time, completion_time))
                     ELSE @,
                 !.trace = Append(@, IF running THEN job2.pid ELSE 0),
                 !.step = Step(s.incoming_processes, s.ready_heap,
                               SubSeq(s.incoming_processes, 1, k), s.current_job,
                               IF s.current_job # None
                               THEN s.remaining_times[s.current_job.pid] ELSE 0,
                               dispatch, job2,
                               IF running THEN s.remaining_times[job2.pid] ELSE 0,
                               0, finished, @),
                 !.clock = ClockTick(@)]

StcfTick ==
    /\ pc = "loop" /\ disc = "STCF"
    /\ StcfLoopCond(State)
    /\ Followed(State)
    /\ Becomes(StcfIteration(State))

(***************************************************************************)
(* run_rr_simulation, one iteration.                                       *)
(***************************************************************************)
RrLoopCond(s) ==
    s.incoming_processes # << >> \/ s.ready_processes # << >> \/ s.current_job # None

\* Mutant of QuantumExpired: the slice ends one tick early.
QuantumExpiredEarly(tracker, quantum) == tracker + 1 = quantum

\* Mutant of QuantumExpired: the slice ends one tick late.
QuantumExpiredLate(tracker, quantum) == tracker = quantum + 1

\* `elif quantum_tracker == time_quantum`
QuantumExpired(tracker, quantum) == tracker = quantum

\* Mutant of Requeue: the preempted job is not put back.
RequeueLost(ready, newcomers, job) == ready \o newcomers

\* Mutant of Requeue: the preempted job goes back to the head of the queue.
RequeueFront(ready, newcomers, job) == << job >> \o ready \o newcomers

\* Mutant of Requeue: the preempted job is appended before the newcomers.
RequeueBeforeNewcomers(ready, newcomers, job) == Append(ready, job) \o newcomers

\* Quantum expiry: the arrivals up to clock.time + 1 are appended first, then
\* the preempted job.
Requeue(ready, newcomers, job) == Append(ready \o newcomers, job)

RrIteration(s) ==
    LET k == ArrivedPrefix(s.incoming_processes, s.clock)
        pending1 == SubSeq(s.incoming_processes, k + 1, Len(s.incoming_processes))
        ready1 == s.ready_processes \o SubSeq(s.incoming_processes, 1, k)
        dispatch == CpuIdle(s.current_job) /\ ready1 # << >>
        job1 == IF dispatch THEN Head(ready1) ELSE s.current_job
        ready2 == IF dispatch THEN Tail(ready1) ELSE ready1
        qt1 == IF dispatch THEN 0 ELSE s.quantum_tracker
        running == job1 # None
        rt1 == IF running
               THEN [s.remaining_times EXCEPT ![job1.pid] = @ - 1]
               ELSE s.remaining_times
        qt2 == IF running THEN qt1 + 1 ELSE qt1
        finished == running /\ rt1[job1.pid] = 0
        expired == running /\ ~finished /\ QuantumExpired(qt2, s.time_quantum)
        completion_time == CompletionTime(s.clock)
        turnaround_time == completion_time - job1.arrival_time
        waiting_time == turnaround_time - s.original_bursts[job1.pid]
        k2 == ArrivedPrefix(pending1, s.clock + 1)
        pending2 == IF expired THEN SubSeq(pending1, k2 + 1, Len(pending1))
                    ELSE pending1
        ready3 == IF expired THEN Requeue(ready2, SubSeq(pending1, 1, k2), job1)
                  ELSE ready2
    IN [s EXCEPT !.incoming_processes = pending2,
                 !.ready_processes = ready3,
                 !.current_job = IF finished \/ expired THEN None ELSE job1,
                 !.quantum_tracker = IF finished \/ expired THEN 0 ELSE qt2,
                 !.remaining_times = rt1,
                 !.process_results =
                     IF finished
                     THEN Append(@, ProcessResult(job1, waiting_time,
                                                  turnaround_time, completion_time))
                     ELSE @,
                 !.trace = Append(@, IF running THEN job1.pid ELSE 0),
                 !.step = Step(s.incoming_processes, s.ready_processes,
                               SubSeq(s.incoming_processes, 1, k), s.current_job,
                               IF s.current_job # None
                               THEN s.remaining_times[s.current_job.pid] ELSE 0,
                               dispatch, job1,
                               IF running THEN s.remaining_times[job1.pid] ELSE 0,
                               qt2, finished, @),
                 !.clock = ClockTick(@)]

RrTick ==
    /\ pc = "loop" /\ disc = "RR"
    /\ RrLoopCond(State)
    /\ Followed(State)
    /\ Becomes(RrIteration(State))

(***************************************************************************)
(* After the loop: the averages and the returned dict.                     *)
(***************************************************************************)
LoopCond(s) ==
    CASE s.disc \in {"FCFS", "SJF"} -> FcfsLoopCond(s)
      [] s.disc = "STCF" -> StcfLoopCond(s)
      [] s.disc = "RR" -> RrLoopCond(s)

RECURSIVE SumOf(_, _)
SumOf(rs, field) ==
    IF rs = << >> THEN 0 ELSE Head(rs)[field] + SumOf(Tail(rs), field)

\* round(total / n, 2) in hundredths.  A tie at the third decimal is a
\* multiple of 1/8, exact in binary floating point, where Python rounds to
\* the even hundredth.
RoundHundredths(total, n) ==
    LET q == (100 * total) \div n
        r == (100 * total) % n
    IN IF 2 * r < n THEN q
       ELSE IF 2 * r > n THEN q + 1
       ELSE IF q % 2 = 0 THEN q ELSE q + 1

IndividualResults(rs) ==
    [i \in 1..Len(rs) |->
        [pid |-> rs[i].process.pid, wait |-> rs[i].waiting_time,
         turnaround |-> rs[i].turnaround_time,
         completion |-> rs[i].completion_time]]

Report(rs) ==
    [individual_results |-> IndividualResults(rs),
     averages |->
        [avg_waiting_time |-> RoundHundredths(SumOf(rs, "waiting_time"), Len(rs)),
         avg_turnaround_time |->
             RoundHundredths(SumOf(rs, "turnaround_time"), Len(rs))]]

\* Lines after the loop: `sum(...) / len(process_results)` raises
\* ZeroDivisionError on an empty result list, otherwise the dict is returned.
AfterLoop(s) ==
    IF s.process_results = << >>
    THEN [s EXCEPT !.pc = "raised"]
    ELSE [s EXCEPT !.pc = "returned", !.report = Report(s.process_results)]

Return ==
    /\ pc = "loop"
    /\ ~LoopCond(State)
    /\ Becomes(AfterLoop(State))

Next ==
    \/ Reject
    \/ FcfsStart
    \/ SjfStart
    \/ StcfStart
    \/ RrStart
    \/ FcfsTick
    \/ SjfTick
    \/ StcfTick
    \/ RrTick
    \/ Return

Spec == Init /\ [][Next]_vars

(***************************************************************************)
(* Properties.                                                             *)
(***************************************************************************)
Results == {process_results[i] : i \in 1..Len(process_results)}

InputProcs == {input0[i] : i \in 1..Len(input0)}

\* The process of the input with the given pid.
ProcOf(pid) == CHOOSE p \in InputProcs : p.pid = pid

\* Some process executed, was off the CPU while another executed, and
\* executed again.
WasPreempted ==
    \E i, j, k \in 1..Len(trace) :
        /\ i < j /\ j < k
        /\ trace[i] # 0 /\ trace[k] = trace[i]
        /\ trace[j] # 0 /\ trace[j] # trace[i]

\* C1: every result produced by any of the four simulations has
\* turnaround = waiting + burst_time of its process and
\* completion = arrival_time + turnaround, in the result records and in the
\* returned report.
C1_ResultIdentities ==
    /\ \A r \in Results :
           /\ r.turnaround_time = r.waiting_time + r.process.burst_time
           /\ r.completion_time = r.process.arrival_time + r.turnaround_time
    /\ \A i \in 1..Len(report.individual_results) :
           LET d == report.individual_results[i]
           IN /\ d.turnaround = d.wait + ProcOf(d.pid).burst_time
              /\ d.completion = ProcOf(d.pid).arrival_time + d.turnaround

\* A non-preemptive run has returned in which some process had to wait.
C1_Witness ==
    /\ pc = "returned"
    /\ disc \in {"FCFS", "SJF"}
    /\ \E d \in {report.individual_results[i] :
                    i \in 1..Len(report.individual_results)} : d.wait > 0

\* C2: when a simulation returns, every process of the input list has
\* exactly one entry in the result list and in the report, preempted and
\* re-queued processes included.
C2_EachCompletedOnce ==
    pc = "returned" =>
        /\ Len(process_results) = Len(input0)
        /\ Len(report.individual_results) = Len(input0)
        /\ \A p \in InputProcs :
               /\ Cardinality({i \in 1..Len(process_results) :
                                  process_results[i].process = p}) = 1
               /\ Cardinality({i \in 1..Len(report.individual_results) :
                                  report.individual_results[i].pid = p.pid}) = 1

\* A run has returned in which a process was preempted and ran again.
C2_Witness ==
    /\ pc = "returned"
    /\ Len(input0) >= 2
    /\ WasPreempted

\* C3: every result has waiting_time >= 0 and
\* completion_time >= arrival_time + burst_time, and no process executes a
\* unit of work at a tick earlier than its arrival_time.
C3_NoWorkBeforeArrival ==
    /\ \A r \in Results :
           /\ r.waiting_time >= 0
           /\ r.completion_time >= r.process.arrival_time + r.process.burst_time
    /\ \A t \in 1..Len(trace) :
           trace[t] # 0 => ProcOf(trace[t]).arrival_time <= t - 1

\* The CPU was idle at tick 0 and a process that arrived later has completed
\* without waiting.
C3_Witness ==
    /\ Len(trace) >= 1 /\ trace[1] = 0
    /\ \E r \in Results : r.process.arrival_time > 0 /\ r.waiting_time = 0

\* C4 (as claimed): every simulation on a valid list leaves its loop; the
\* loop is no longer iterating once the clock has passed the tick by which
\* all arrived work can have been executed (last arrival + total burst).
C4_LoopExitsByHorizon ==
    (/\ pc = "loop"
     /\ LoopCond(State)
     /\ \A p \in InputProcs : p.burst_time >= 0)
        => clock <= Horizon(input0)

\* A process that was dispatched has a negative remaining time.
NeverCompletes ==
    /\ pc = "loop"
    /\ \/ disc \in {"FCFS", "SJF"} /\ current_job # None /\ remaining_time < 0
       \/ disc \in {"STCF", "RR"}
              /\ \E pid \in DOMAIN remaining_times : remaining_times[pid] < 0

\* C4, the state that violates it: a loop still iterating past the horizon
\* holds a process whose remaining time is negative ...
C4_OverdueIsStuck ==
    (/\ pc = "loop"
     /\ LoopCond(State)
     /\ clock > Horizon(input0)
     /\ \A p \in InputProcs : p.burst_time >= 0)
        => NeverCompletes

\* ... and C4, from such a state no step completes that process or leaves
\* the loop: the remaining time only decreases and is tested with `== 0`.
C4_StuckStaysStuck ==
    [][NeverCompletes => (NeverCompletes' /\ pc' = "loop")]_vars

\* C5 (as claimed): a process with burst_time 0 has, once the iteration of
\* its arrival tick is over, a result with waiting_time 0 and
\* completion_time equal to its arrival_time.
C5_ZeroBurstInstant ==
    \A p \in InputProcs :
        (p.burst_time = 0 /\ pc \in {"loop", "returned"} /\ clock > p.arrival_time)
            => \E r \in Results :
                   /\ r.process = p
                   /\ r.waiting_time = 0
                   /\ r.completion_time = p.arrival_time

\* The precondition violations the claim lists.
PreconditionViolated ==
    \/ Len(input0) = 0
    \/ disc = "RR" /\ time_quantum <= 0
    \/ \E i \in 1..(Len(input0) - 1) :
           input0[i].arrival_time > input0[i + 1].arrival_time

\* C6: on an empty list, on time_quantum <= 0 in RR and on a list not
\* sorted non-decreasing by arrival_time the call raises before the clock
\* is created and before any process is admitted, dispatched or reported,
\* and the list is left as it was (not sorted by the function).
C6_RejectedBeforeSimulation ==
    PreconditionViolated =>
        /\ pc \in {"start", "raised"}
        /\ clock = NoClock
        /\ current_job = None
        /\ process_results = << >>
        /\ ready_processes = << >> /\ ready_heap = << >>
        /\ incoming_processes = << >>
        /\ trace = << >>
        /\ report = NoReport
        /\ processes = input0

\* RR has raised on a non-empty sorted list because of a zero quantum.
C6_Witness ==
    /\ pc = "raised"
    /\ disc = "RR" /\ time_quantum = 0
    /\ Len(input0) >= 1
    /\ is_sorted_by_arrival(input0)

\* C7 (as claimed): after a run the caller's list holds the same Process
\* values in the same order as before it.
C7_InputUnchanged ==
    pc = "returned" => processes = input0

\* C8: when time_quantum >= every burst_time, run_rr_simulation returns the
\* report run_fcfs_simulation returns on the same list: same completion
\* order, same waiting, turnaround and completion times.
C8_RrDegeneratesToFcfs ==
    (/\ pc = "returned"
     /\ disc = "RR"
     /\ \A p \in InputProcs : p.burst_time <= time_quantum)
        => report = Report(FcfsLoop(StartFcfsSjf(Called("FCFS", input0, 0))).process_results)

\* RR has returned on two processes, one of which used its whole quantum
\* and one of which waited.
C8_Witness ==
    /\ pc = "returned"
    /\ disc = "RR"
    /\ Len(input0) = 2
    /\ \A p \in InputProcs : p.burst_time <= time_quantum
    /\ \E p \in InputProcs : p.burst_time = time_quantum
    /\ \E r \in Results : r.waiting_time > 0

\* The first process arrives at tick 0 and every later one no later than
\* the tick at which the work of the processes before it is finished.
NoIdleTime(ps) ==
    /\ Len(ps) >= 1
    /\ ps[1].arrival_time = 0
    /\ \A i \in 2..Len(ps) : ps[i].arrival_time <= SumBurst(SubSeq(ps, 1, i - 1))

\* C9: when the arrivals leave no idle time, the completion_time of the
\* last-finishing process is the sum of all burst times, in every discipline.
C9_LastCompletionIsTotalBurst ==
    (pc = "returned" /\ NoIdleTime(input0)) =>
        /\ \E r \in Results : r.completion_time = SumBurst(input0)
        /\ \A r \in Results : r.completion_time <= SumBurst(input0)

\* A run without idle time has returned in which a process arrived after
\* tick 0 and a process was preempted.
C9_Witness ==
    /\ pc = "returned"
    /\ NoIdleTime(input0)
    /\ \E p \in InputProcs : p.arrival_time > 0
    /\ WasPreempted

\* Scenario D has been run to its return by RR with quantum 2.
ScenarioDReturned ==
    /\ pc = "returned"
    /\ disc = "RR"
    /\ time_quantum = 2
    /\ input0 = ScenarioD

\* C10 (as claimed): Scenario D executes the pids 1,1,2,2,1,1,1,2 and
\* process 2 completes at tick 8 with waiting_time 5.
C10_ScenarioD_AsClaimed ==
    ScenarioDReturned =>
        /\ trace = << 1, 1, 2, 2, 1, 1, 1, 2 >>
        /\ \E r \in Results :
               r.process.pid = 2 /\ r.completion_time = 8 /\ r.waiting_time = 5

\* C10 (amended): Scenario D executes the pids 1,1,2,2,1,1,2,1; process 2
\* completes at tick 7 with waiting_time 4 and process 1 at tick 8 with
\* waiting_time 3.
C10_ScenarioD ==
    ScenarioDReturned =>
        /\ trace = << 1, 1, 2, 2, 1, 1, 2, 1 >>
        /\ report.individual_results =
               << [pid |-> 2, wait |-> 4, turnaround |-> 7, completion |-> 7],
                  [pid |-> 1, wait |-> 3, turnaround |-> 8, completion |-> 8] >>

\* Scenario D has returned and both processes were preempted on the way.
C10_Witness ==
    /\ ScenarioDReturned
    /\ WasPreempted
    /\ \A r \in Results : r.waiting_time > 0

\* C11 (as claimed): no Process with a negative burst_time is ever passed
\* to a simulation function, because its construction fails.
C11_NoNegativeBurstSimulated ==
    pc \in {"loop", "returned"} => \A p \in InputProcs : p.burst_time >= 0

\* The last iteration was an STCF tick that began with a job on the CPU and
\* admitted at least one process.
StcfArrivalWhileRunning ==
    /\ disc = "STCF"
    /\ step.incumbent # None
    /\ step.admitted # << >>

\* C12: at an STCF tick where a process p is running and processes are newly
\* admitted, p is replaced on the CPU at that tick if and only if a newly
\* admitted process has strictly less remaining time than p; a replaced p is
\* back in the ready set with its remaining time unchanged, and otherwise p
\* executes the tick.
C12_StcfPreemption ==
    StcfArrivalWhileRunning =>
        LET p == step.incumbent
            shorter == \E i \in 1..Len(step.admitted) :
                           step.admitted[i].burst_time < step.incumbent_rem
        IN /\ (step.ran # p) <=> shorter
           /\ shorter =>
                  /\ remaining_times[p.pid] = step.incumbent_rem
                  /\ Cardinality({i \in 1..Len(ready_heap) :
                                     ready_heap[i][4] = p}) = 1
                  /\ \A i \in 1..Len(ready_heap) :
                         ready_heap[i][4] = p =>
                             ready_heap[i][1] = step.incumbent_rem
                  /\ step.ran \in {step.admitted[i] : i \in 1..Len(step.admitted)}
           /\ ~shorter =>
                  /\ step.rem_before = step.incumbent_rem
                  /\ remaining_times[p.pid] = step.incumbent_rem - 1

\* A job with work left was preempted by a newly admitted shorter process.
C12_Witness ==
    /\ StcfArrivalWhileRunning
    /\ step.ran # step.incumbent
    /\ step.incumbent_rem >= 2
    /\ step.incumbent_rem < step.incumbent.burst_time
    /\ step.ran.burst_time >= 1

\* The position of a process in the input list.
IndexOf(p) == CHOOSE i \in 1..Len(input0) : input0[i] = p

\* The tick the last iteration simulated.
LastTick == clock - 1

\* The processes that had arrived by the last tick and were not complete
\* when it began.
ArrivedIncomplete ==
    {p \in InputProcs :
        /\ p.arrival_time <= LastTick
        /\ ~\E r \in Results : r.process = p /\ r.completion_time <= LastTick}

\* C13 (as claimed): when STCF dispatches among ready processes of equal
\* remaining time, it takes the one earliest in the input list, whatever the
\* pids are (stated on lists of positive bursts).
C13_StcfTieInputOrder ==
    (/\ disc = "STCF"
     /\ step.dispatched
     /\ \A p \in InputProcs : p.burst_time >= 1)
        => \A q \in ArrivedIncomplete \ {step.ran} :
               remaining_times[q.pid] = step.rem_before
                   => IndexOf(step.ran) < IndexOf(q)

\* C14: at every STCF tick on which a process executes, its remaining time
\* before the unit is at most the remaining time of every other process that
\* has arrived and is not complete.
C14_StcfRunsShortestRemaining ==
    (disc = "STCF" /\ step.ran # None) =>
        \A q \in ArrivedIncomplete \ {step.ran} :
            step.rem_before <= remaining_times[q.pid]

\* An STCF tick was executed by a process while a preempted process with
\* more remaining time was waiting.
C14_Witness ==
    /\ disc = "STCF"
    /\ step.ran # None
    /\ step.rem_before >= 1
    /\ \E q \in ArrivedIncomplete \ {step.ran} :
           /\ remaining_times[q.pid] > step.rem_before
           /\ remaining_times[q.pid] < q.burst_time

\* C15: whenever an SJF tick begins with the CPU idle and some arrived
\* process incomplete, it dispatches one of them of least burst_time, and
\* among those of least burst_time the earliest in the input list.
C15_SjfSelection ==
    disc = "SJF" =>
        /\ (step.incumbent = None /\ ArrivedIncomplete # {}) =>
               step.dispatched /\ step.ran \in ArrivedIncomplete
        /\ step.dispatched =>
               \A q \in ArrivedIncomplete :
                   /\ step.ran.burst_time <= q.burst_time
                   /\ q.burst_time = step.ran.burst_time
                          => IndexOf(step.ran) <= IndexOf(q)

\* SJF dispatched a process over one that is earlier in the list and longer.
C15_Witness ==
    /\ disc = "SJF"
    /\ step.dispatched
    /\ step.ran.burst_time >= 1
    /\ \E q \in ArrivedIncomplete :
           q.burst_time > step.ran.burst_time /\ IndexOf(q) < IndexOf(step.ran)

\* C16: in FCFS and SJF a process of burst b >= 1 dispatched at tick s
\* executes on every tick s .. s+b-1 and on no other, no other process
\* executes in between, and its completion_time is s + b: the job on the
\* CPU at the start of a tick executes that tick, the ticks of a process are
\* contiguous, and a completed process executed exactly the b ticks that end
\* at its completion_time, the first being its dispatch tick.
C16_NonPreemptive ==
    disc \in {"FCFS", "SJF"} =>
        /\ (step.incumbent # None /\ step.incumbent.burst_time >= 1) =>
               step.ran = step.incumbent /\ ~step.dispatched
        /\ \A i, j \in 1..Len(trace) :
               (i < j /\ trace[i] # 0 /\ trace[i] = trace[j]
                      /\ ProcOf(trace[i]).burst_time >= 1)
                   => \A k \in i..j : trace[k] = trace[i]
        /\ \A r \in Results :
               r.process.burst_time >= 1 =>
                   LET b == r.process.burst_time
                       s == r.process.arrival_time + r.waiting_time
                   IN /\ r.completion_time = s + b
                      /\ \A i \in 1..Len(trace) :
                             trace[i] = r.process.pid <=> (s < i /\ i <= s + b)

\* SJF completed a process during whose run a shorter process arrived.
C16_Witness ==
    /\ disc = "SJF"
    /\ \E r \in Results, q \in InputProcs :
           /\ q.burst_time >= 1
           /\ q.burst_time < r.process.burst_time
           /\ r.completion_time - r.process.burst_time < q.arrival_time
           /\ q.arrival_time < r.completion_time

\* aevum/metrics.py calculate_waiting_time: `max(0, prev_completion_time -
\* arrival_time)`.
calculate_waiting_time(arrival_time, prev_completion_time) ==
    LET wait_time == prev_completion_time - arrival_time
    IN IF wait_time > 0 THEN wait_time ELSE 0

\* The legacy Process of base.py: pid and burst_time, with waiting_time and
\* turnaround_time unset (None) until the legacy FCFS computes them.
LegacyUnset == 0 - 1

LegacyProcess(pid, burst_time) ==
    [pid |-> pid, burst_time |-> burst_time,
     waiting_time |-> LegacyUnset, turnaround_time |-> LegacyUnset]

\* `previous = None` of the legacy FCFS, for the first process.
LegacyNone == LegacyProcess(0, 0)

\* Legacy metrics.py calculate_waiting_time: the value it stores in
\* current.waiting_time.
LegacyCalculateWaitingTime(current, previous) ==
    IF previous = LegacyNone
    THEN 0
    ELSE previous.waiting_time + previous.burst_time

\* Legacy metrics.py calculate_turnaround_time: the value it stores in
\* current.turnaround_time.
LegacyCalculateTurnaroundTime(current) ==
    current.waiting_time + current.burst_time

\* The `for i in range(len(processes))` loop of the legacy run_fcfs_simulation,
\* from index i on.
RECURSIVE LegacyFcfsLoop(_, _)
LegacyFcfsLoop(ps, i) ==
    IF i > Len(ps)
    THEN ps
    ELSE LET previous == IF i > 1 THEN ps[i - 1] ELSE LegacyNone
             waited == [ps[i] EXCEPT !.waiting_time =
                            LegacyCalculateWaitingTime(ps[i], previous)]
             turned == [waited EXCEPT !.turnaround_time =
                            LegacyCalculateTurnaroundTime(waited)]
         IN LegacyFcfsLoop([ps EXCEPT ![i] = turned], i + 1)

\* The processes of a list as legacy processes, after the legacy FCFS.
LegacyFcfs(ps) ==
    LegacyFcfsLoop([i \in 1..Len(ps) |->
                        LegacyProcess(ps[i].pid, ps[i].burst_time)], 1)

\* C17: FCFS returns the processes in input order; each starts at
\* max(its arrival_time, completion_time of the previous process), so its
\* waiting_time is calculate_waiting_time(arrival_time, previous completion);
\* when every arrival_time is 0 the waiting and turnaround times are those of
\* the legacy FCFS (waiting_i = waiting_(i-1) + burst_(i-1)).
C17_FcfsSequential ==
    (disc = "FCFS" /\ pc = "returned") =>
        /\ Len(process_results) = Len(input0)
        /\ \A i \in 1..Len(input0) :
               LET r == process_results[i]
                   p == input0[i]
                   prev == IF i = 1 THEN 0
                           ELSE process_results[i - 1].completion_time
                   start == IF p.arrival_time > prev THEN p.arrival_time
                            ELSE prev
               IN /\ r.process = p
                  /\ report.individual_results[i].pid = p.pid
                  /\ r.completion_time = start + p.burst_time
                  /\ r.waiting_time = start - p.arrival_time
                  /\ r.waiting_time =
                         calculate_waiting_time(p.arrival_time, prev)
        /\ (\A i \in 1..Len(input0) : input0[i].arrival_time = 0) =>
               \A i \in 1..Len(input0) :
                   /\ process_results[i].waiting_time =
                          LegacyFcfs(input0)[i].waiting_time
                   /\ process_results[i].turnaround_time =
                          LegacyFcfs(input0)[i].turnaround_time
                   /\ i > 1 => process_results[i].waiting_time =
                                   process_results[i - 1].waiting_time
                                       + input0[i - 1].burst_time

\* FCFS returned for two processes that both arrived at tick 0.
C17_Witness ==
    /\ disc = "FCFS"
    /\ pc = "returned"
    /\ Len(input0) >= 2
    /\ \A i \in 1..Len(input0) : input0[i].arrival_time = 0
    /\ process_results[2].waiting_time > 0

\* The last iteration of RR preempted the job it ran: the quantum expired on a
\* job that had not finished.
RrPreempted ==
    /\ disc = "RR"
    /\ step.ran # None
    /\ ~step.finished
    /\ step.slice = time_quantum

\* The processes the last iteration began with, less those its arrival loop
\* admitted, that have arrived by the next tick, in input order.
RrNewcomers ==
    LET unadmitted == SubSeq(step.pending, Len(step.admitted) + 1,
                             Len(step.pending))
        ByNextTick(n) == n.arrival_time <= LastTick + 1
    IN SelectSeq(unadmitted, ByNextTick)

\* The ready queue of the last iteration after its arrival loop and dispatch.
RrQueueAfterDispatch ==
    LET queue1 == step.queue \o step.admitted
    IN IF step.dispatched THEN Tail(queue1) ELSE queue1

\* Process pid executed tick i - 1 without completing and did not execute the
\* next tick: it left the CPU by quantum expiry.
LeftCpuAt(pid, i) ==
    /\ i < Len(trace)
    /\ trace[i] = pid
    /\ trace[i + 1] # pid
    /\ ~\E r \in Results : r.process.pid = pid /\ r.completion_time = i

\* C18: a process preempted by quantum expiry after tick t goes to the tail
\* of the ready queue behind every not-yet-admitted process with
\* arrival_time <= t+1, so each such newcomer executes before the preempted
\* process executes again; apart from that the queue is FIFO: arrivals are
\* appended in input order and the dispatch takes the head.
C18_RrRequeue ==
    (disc = "RR" /\ trace # << >>) =>
        /\ step.dispatched => step.ran = Head(step.queue \o step.admitted)
        /\ ready_processes =
               IF RrPreempted
               THEN RrQueueAfterDispatch \o RrNewcomers \o << step.ran >>
               ELSE RrQueueAfterDispatch
        /\ RrPreempted =>
               \A i \in 1..Len(incoming_processes) :
                   incoming_processes[i].arrival_time > LastTick + 1
        /\ ( /\ step.prev_ran # None
             /\ ~step.prev_finished
             /\ step.prev_slice = time_quantum
             /\ step.ran = step.prev_ran ) =>
               \A n \in InputProcs \ {step.ran} : n.arrival_time # LastTick
        /\ \A i, j \in 1..Len(trace) :
               (i < j /\ trace[j] # 0 /\ LeftCpuAt(trace[j], i)) =>
                   \A n \in InputProcs :
                       (n.arrival_time = i /\ n.pid # trace[j]) =>
                           \E k \in (i + 1)..(j - 1) : trace[k] = n.pid

\* A preempted process executed again, after a process that arrived on the
\* tick after its preemption.
C18_Witness ==
    /\ disc = "RR"
    /\ \E i, j \in 1..Len(trace) :
           /\ i < j
           /\ trace[j] # 0
           /\ LeftCpuAt(trace[j], i)
           /\ \E n \in InputProcs : n.arrival_time = i /\ n.pid # trace[j]

\* A process that completes on the last tick of its slice is reported as
\* completed at the end of that tick and is not put back in the ready queue.
CompletedOnQuantum ==
    (step.finished /\ step.slice = time_quantum) =>
        /\ \E r \in Results :
               r.process = step.ran /\ r.completion_time = LastTick + 1
        /\ \A i \in 1..Len(ready_processes) : ready_processes[i] # step.ran
        /\ current_job = None

\* Process pid has not completed by the end of the tick of trace index i.
IncompleteAfter(pid, i) ==
    ~\E r \in Results : r.process.pid = pid /\ r.completion_time <= i

\* C19 (as claimed): whenever a process has executed time_quantum consecutive
\* ticks without completing and another process has arrived and is
\* incomplete by the next tick, a different process executes on the next
\* tick; a process completing on its time_quantum-th tick is reported as
\* completed and is not re-enqueued.
C19_RrQuantumBound_AsClaimed ==
    (disc = "RR" /\ trace # << >>) =>
        /\ \A i \in 1..(Len(trace) - 1) :
               ( /\ trace[i] # 0
                 /\ i >= time_quantum
                 /\ \A k \in (i - time_quantum + 1)..i : trace[k] = trace[i]
                 /\ IncompleteAfter(trace[i], i)
                 /\ \E o \in InputProcs :
                        /\ o.pid # trace[i]
                        /\ o.arrival_time <= i
                        /\ IncompleteAfter(o.pid, i) )
                   => trace[i + 1] \notin {0, trace[i]}
        /\ CompletedOnQuantum

\* C19: whenever a process has executed time_quantum consecutive ticks since
\* its last dispatch without completing and another process has arrived and
\* is incomplete by the next tick, a different process executes on the next
\* tick; no slice is longer than time_quantum ticks; a process completing on
\* the time_quantum-th tick of its slice is reported as completed and is not
\* re-enqueued.
C19_RrQuantumBound ==
    (disc = "RR" /\ trace # << >>) =>
        /\ step.slice <= time_quantum
        /\ ( /\ step.prev_ran # None
             /\ ~step.prev_finished
             /\ step.prev_slice = time_quantum
             /\ ArrivedIncomplete \ {step.prev_ran} # {} ) =>
               step.ran \notin {None, step.prev_ran}
        /\ CompletedOnQuantum

\* A process used up its slice without completing while another process was
\* ready, and that other process executed the next tick.
C19_Witness ==
    /\ disc = "RR"
    /\ step.prev_ran # None
    /\ ~step.prev_finished
    /\ step.prev_slice = time_quantum
    /\ time_quantum >= 2
    /\ ArrivedIncomplete \ {step.prev_ran} # {}
    /\ step.ran \notin {None, step.prev_ran}

\* The number of ticks on which process pid executed.
Executed(pid) == Cardinality({i \in 1..Len(trace) : trace[i] = pid})

\* The work process p still has to do: remaining_times[pid] in STCF and RR;
\* in FCFS and SJF remaining_time for the job on the CPU, nothing for a
\* reported process, the whole burst for one not yet dispatched.
Remaining(p) ==
    IF disc \in {"STCF", "RR"} THEN remaining_times[p.pid]
    ELSE IF current_job = p THEN remaining_time
    ELSE IF \E r \in Results : r.process = p THEN 0
    ELSE p.burst_time

\* C20: in every discipline the clock advances by exactly 1 per loop
\* iteration; on a tick at which some process has arrived and is incomplete
\* exactly one such process executes exactly one unit of work, and the CPU is
\* idle on a tick only when no arrived process is incomplete; the units a
\* process has executed are its burst_time less its remaining work.
C20_WorkConservation ==
    (pc \in {"loop", "returned"} /\ trace # << >>) =>
        /\ clock = Len(trace)
        /\ (step.ran # None) <=> (ArrivedIncomplete # {})
        /\ trace[Len(trace)] = (IF step.ran = None THEN 0 ELSE step.ran.pid)
        /\ step.ran # None =>
               /\ step.ran \in ArrivedIncomplete
               /\ Remaining(step.ran) =
                      (IF step.finished THEN 0 ELSE step.rem_before - 1)
               /\ step.finished <=> step.rem_before = 1
        /\ \A p \in InputProcs :
               p.burst_time - Remaining(p) = Executed(p.pid)

\* The CPU was idle on tick 0, before any process arrived, and a process has
\* executed since.
C20_Witness ==
    /\ pc = "loop"
    /\ trace # << >>
    /\ trace[1] = 0
    /\ step.ran # None
    /\ Cardinality(ArrivedIncomplete) >= 2

====
